---------------------------- MODULE Spec2Model ----------------------------
(***************************************************************************)
(* A model of code/ingest.py, the script that fetches the University of    *)
(* Sheffield COVID-19 dashboard, extracts the rows of its table, validates *)
(* and transforms them, draws two charts and optionally stores the records *)
(* as CSV or JSON.                                                         *)
(*                                                                         *)
(* A Python str is a sequence of one-character strings; None is a          *)
(* separate value.  A cell of a transformed record is a tagged value,      *)
(* StrVal(s) or IntVal(n), so that "6" and 6 are different values as they *)
(* are in Python.                                                          *)
(***************************************************************************)
EXTENDS Integers, Sequences, FiniteSets, TLC

VARIABLES pc, args, status, dom, table, validated, data, heatdata,
          plotarray, files, exc, where

vars == <<pc, args, status, dom, table, validated, data, heatdata,
          plotarray, files, exc, where>>

\* ------------------------------------------------------------------ bounds

\* Rows (tr elements) of a fetched page, in the run of main.
MaxPageRows == 2
\* Rows of a table handed to validate alone.
MaxTableRows == 2
\* Cells after the first one in a generated row handed to validate.
MaxCells == 1
\* Rows of a validated table handed to the transformers alone.
MaxValidatedRows == 3

\* ----------------------------------------------------------------- strings

\* Python's None (never equal to a str: no str holds a many-character element).
None == <<"None">>

DigitChars == <<"0", "1", "2", "3", "4", "5", "6", "7", "8", "9">>

\* The characters of the model in code point order (what str comparison uses).
CodeOrder ==
  <<" ", "*", "+", "-">> \o DigitChars \o
  <<"B", "D", "F", "N", "O", "T",
    "a", "b", "c", "d", "e", "f", "l", "n", "o", "r", "s", "t", "u", "w", "x">>

Ord(c) == CHOOSE i \in 1..Len(CodeOrder) : CodeOrder[i] = c

\* a < b for two str values.
RECURSIVE StrLess(_, _)
StrLess(a, b) ==
  IF Len(b) = 0 THEN FALSE
  ELSE IF Len(a) = 0 THEN TRUE
  ELSE IF a[1] = b[1] THEN StrLess(Tail(a), Tail(b))
  ELSE Ord(a[1]) < Ord(b[1])

\* sub in s, for two str values.
Contains(s, sub) ==
  \E i \in 0..(Len(s) - Len(sub)) : SubSeq(s, i + 1, i + Len(sub)) = sub

\* s.endswith('*')
EndsWithStar(s) == Len(s) > 0 /\ s[Len(s)] = "*"

\* s.split(sep) for a one-character sep.
RECURSIVE Split(_, _)
Split(s, sep) ==
  IF \A i \in 1..Len(s) : s[i] # sep THEN <<s>>
  ELSE LET k == CHOOSE i \in 1..Len(s) :
                  s[i] = sep /\ \A j \in 1..(i - 1) : s[j] # sep
       IN <<SubSeq(s, 1, k - 1)>> \o Split(SubSeq(s, k + 1, Len(s)), sep)

\* s.strip() where the only whitespace of the model is the space.
RECURSIVE Strip(_)
Strip(s) ==
  IF Len(s) > 0 /\ s[1] = " " THEN Strip(Tail(s))
  ELSE IF Len(s) > 0 /\ s[Len(s)] = " " THEN Strip(SubSeq(s, 1, Len(s) - 1))
  ELSE s

IsDigit(c) == \E i \in 1..Len(DigitChars) : DigitChars[i] = c

IsDigits(s) == Len(s) > 0 /\ \A i \in 1..Len(s) : IsDigit(s[i])

DigitVal(c) == (CHOOSE i \in 1..Len(DigitChars) : DigitChars[i] = c) - 1

RECURSIVE ToNat(_)
ToNat(s) ==
  IF Len(s) = 0 THEN 0
  ELSE ToNat(SubSeq(s, 1, Len(s) - 1)) * 10 + DigitVal(s[Len(s)])

\* n written in w decimal digits, zero padded.
Pad(n, w) == [i \in 1..w |-> DigitChars[((n \div (10 ^ (w - i))) % 10) + 1]]

\* The texts the model uses.
Star == <<"*">>
Sp == <<" ">>
Day == <<"D", "a", "y">>
NewStaff == <<"N", "e", "w", " ", "s", "t", "a", "f", "f">>
NewStudent == <<"N", "e", "w", " ", "s", "t", "u", "d", "e", "n", "t">>
Cases == <<" ", "c", "a", "s", "e", "s">>
Foo == <<"F", "o", "o">>
Bar == <<"B", "a", "r">>
Total == <<"T", "o", "t", "a", "l">>
October == <<"O", "c", "t", "o", "b", "e", "r">>
Y2020 == <<"2", "0", "2", "0">>
\* "9 October 2020" (a Friday), "11 October 2020" (a Sunday),
\* "12 October 2020" (a Monday), and the Sunday again as "2020-10-11".
Oct09 == <<"9">> \o Sp \o October \o Sp \o Y2020
Oct11 == <<"1", "1">> \o Sp \o October \o Sp \o Y2020
Oct12 == <<"1", "2">> \o Sp \o October \o Sp \o Y2020
Iso11 == Y2020 \o <<"-", "1", "0", "-", "1", "1">>

\* ------------------------------------------------------------------ values

StrVal(s) == [type |-> "str", str |-> s, int |-> 0]
IntVal(n) == [type |-> "int", str |-> <<>>, int |-> n]

\* a < b for two cells of a record (str with str, int with int).
ValLess(a, b) ==
  IF a.type = "str" /\ b.type = "str" THEN StrLess(a.str, b.str)
  ELSE IF a.type = "int" /\ b.type = "int" THEN a.int < b.int
  ELSE FALSE

\* r1 < r2 for two lists: the first differing element decides, a proper
\* prefix is smaller.
RECURSIVE RowLess(_, _)
RowLess(r1, r2) ==
  IF Len(r2) = 0 THEN FALSE
  ELSE IF Len(r1) = 0 THEN TRUE
  ELSE IF r1[1] = r2[1] THEN RowLess(Tail(r1), Tail(r2))
  ELSE ValLess(r1[1], r2[1])

\* A mutant of sorted: the list as it is.
Unsorted(result) == result

\* sorted(result): stable insertion of each record after those not greater.
InsertAt(rest, r, k) == SubSeq(rest, 1, k) \o <<r>> \o SubSeq(rest, k + 1, Len(rest))

Insert(rest, r) ==
  InsertAt(rest, r, Cardinality({i \in 1..Len(rest) : ~RowLess(r, rest[i])}))

RECURSIVE sorted(_)
sorted(result) ==
  IF Len(result) = 0 THEN <<>>
  ELSE Insert(sorted(SubSeq(result, 1, Len(result) - 1)), result[Len(result)])

\* -------------------------------------------------------------- conversions

MonthNames == <<October>>
MonthNumbers == <<10>>

IsLeap(y) == (y % 4 = 0 /\ y % 100 # 0) \/ y % 400 = 0

DaysInMonth(y, m) ==
  IF m = 2 THEN (IF IsLeap(y) THEN 29 ELSE 28)
  ELSE IF m \in {4, 6, 9, 11} THEN 30 ELSE 31

IsDate(y, m, d) == y \in 1..9999 /\ m \in 1..12 /\ d \in 1..DaysInMonth(y, m)

MonthNumber(name) ==
  IF \E k \in 1..Len(MonthNames) : MonthNames[k] = name
  THEN MonthNumbers[CHOOSE k \in 1..Len(MonthNames) : MonthNames[k] = name]
  ELSE 0

Date(y, m, d) ==
  IF IsDate(y, m, d) THEN [exc |-> "none", y |-> y, m |-> m, d |-> d]
  ELSE [exc |-> "ValueError", y |-> 0, m |-> 0, d |-> 0]

\* The date of the tokens w of "<day> <Month> <year>", or else of the tokens
\* h of "<yyyy>-<mm>-<dd>".
DateOfTokens(w, h) ==
  IF Len(w) = 3 /\ IsDigits(w[1]) /\ Len(w[1]) <= 2 /\ IsDigits(w[3]) /\ Len(w[3]) = 4
  THEN Date(ToNat(w[3]), MonthNumber(w[2]), ToNat(w[1]))
  ELSE IF /\ Len(h) = 3
          /\ IsDigits(h[1]) /\ Len(h[1]) = 4
          /\ IsDigits(h[2]) /\ Len(h[2]) = 2
          /\ IsDigits(h[3]) /\ Len(h[3]) = 2
  THEN Date(ToNat(h[1]), ToNat(h[2]), ToNat(h[3]))
  ELSE Date(0, 0, 0)

\* dateutil.parser.parse(s) for the two spellings the pages of the model use,
\* "<day> <Month> <year>" and "<yyyy>-<mm>-<dd>"; any other text of the model
\* ("Total", "", a text with a leftover asterisk) is an unknown string format.
ParseDate(s) == DateOfTokens(Split(s, " "), Split(s, "-"))

\* str(<datetime>.date()): YYYY-MM-DD.
IsoFormat(t) == Pad(t.y, 4) \o <<"-">> \o Pad(t.m, 2) \o <<"-">> \o Pad(t.d, 2)

\* <datetime>.weekday(): 0 is Monday, 6 is Sunday.
MonthShift == <<0, 3, 2, 5, 0, 3, 5, 1, 4, 6, 2, 4>>

\* The day of the week of day d of month m, y being the year, or the year
\* before it for January and February; 0 is Sunday.
SundayFirst(y, m, d) ==
  (y + (y \div 4) - (y \div 100) + (y \div 400) + MonthShift[m] + d) % 7

Weekday(t) == (SundayFirst(IF t.m < 3 THEN t.y - 1 ELSE t.y, t.m, t.d) + 6) % 7

\* int(x) for a str x: surrounding whitespace, an optional sign, digits.
Digits(s) == IF Len(s) > 0 /\ s[1] \in {"+", "-"} THEN Tail(s) ELSE s

Signed(s) ==
  IF ~IsDigits(Digits(s)) THEN [exc |-> "ValueError", int |-> 0]
  ELSE [exc |-> "none",
        int |-> IF s[1] = "-" THEN 0 - ToNat(Digits(s)) ELSE ToNat(Digits(s))]

ParseInt(x) == Signed(Strip(x))

\* ---------------------------------------------------------------- validate

\* A mutant of StripStar: every trailing asterisk removed (rstrip('*')).
RECURSIVE StripAllStars(_)
StripAllStars(cell_value) ==
  IF EndsWithStar(cell_value)
  THEN StripAllStars(SubSeq(cell_value, 1, Len(cell_value) - 1))
  ELSE cell_value

\* cell_value[:-1] if cell_value.endswith('*') else cell_value
StripStar(cell_value) ==
  IF EndsWithStar(cell_value)
  THEN SubSeq(cell_value, 1, Len(cell_value) - 1)
  ELSE cell_value

\* A mutant of ValidateRow: a "Day" row is skipped without the two asserts.
ValidateRowNoAssert(row) ==
  IF Len(row) = 0 THEN [exc |-> "IndexError", keep |-> FALSE, row |-> <<>>]
  ELSE IF row[1] = None THEN [exc |-> "TypeError", keep |-> FALSE, row |-> <<>>]
  ELSE IF Contains(row[1], Day) THEN [exc |-> "none", keep |-> FALSE, row |-> <<>>]
  ELSE IF \E j \in 1..Len(row) : row[j] = None
       THEN [exc |-> "AttributeError", keep |-> FALSE, row |-> <<>>]
  ELSE [exc |-> "none", keep |-> TRUE,
        row |-> [j \in 1..Len(row) |-> StripStar(row[j])]]

\* A mutant of ValidateRow: a cell that is None is passed through.
ValidateRowNoneTolerant(row) ==
  IF Len(row) = 0 THEN [exc |-> "none", keep |-> FALSE, row |-> <<>>]
  ELSE IF row[1] = None
       THEN [exc |-> "none", keep |-> TRUE, row |-> row]
  ELSE IF Contains(row[1], Day) THEN
    IF Len(row) < 2 THEN [exc |-> "IndexError", keep |-> FALSE, row |-> <<>>]
    ELSE IF row[2] = None THEN [exc |-> "TypeError", keep |-> FALSE, row |-> <<>>]
    ELSE IF ~Contains(row[2], NewStaff)
         THEN [exc |-> "AssertionError", keep |-> FALSE, row |-> <<>>]
    ELSE IF Len(row) < 3 THEN [exc |-> "IndexError", keep |-> FALSE, row |-> <<>>]
    ELSE IF row[3] = None THEN [exc |-> "TypeError", keep |-> FALSE, row |-> <<>>]
    ELSE IF ~Contains(row[3], NewStudent)
         THEN [exc |-> "AssertionError", keep |-> FALSE, row |-> <<>>]
    ELSE [exc |-> "none", keep |-> FALSE, row |-> <<>>]
  ELSE [exc |-> "none", keep |-> TRUE,
        row |-> [j \in 1..Len(row) |->
                   IF row[j] = None THEN None ELSE StripStar(row[j])]]

\* One pass of validate's loop body over `row`: the exception it raises, or
\* whether the row is kept (append) or dropped (continue), and the row kept.
\* row[0] of an empty row is an IndexError, "Day" in None a TypeError,
\* None.endswith an AttributeError.
ValidateRow(row) ==
  IF Len(row) = 0 THEN [exc |-> "IndexError", keep |-> FALSE, row |-> <<>>]
  ELSE IF row[1] = None THEN [exc |-> "TypeError", keep |-> FALSE, row |-> <<>>]
  ELSE IF Contains(row[1], Day) THEN
    IF Len(row) < 2 THEN [exc |-> "IndexError", keep |-> FALSE, row |-> <<>>]
    ELSE IF row[2] = None THEN [exc |-> "TypeError", keep |-> FALSE, row |-> <<>>]
    ELSE IF ~Contains(row[2], NewStaff)
         THEN [exc |-> "AssertionError", keep |-> FALSE, row |-> <<>>]
    ELSE IF Len(row) < 3 THEN [exc |-> "IndexError", keep |-> FALSE, row |-> <<>>]
    ELSE IF row[3] = None THEN [exc |-> "TypeError", keep |-> FALSE, row |-> <<>>]
    ELSE IF ~Contains(row[3], NewStudent)
         THEN [exc |-> "AssertionError", keep |-> FALSE, row |-> <<>>]
    ELSE [exc |-> "none", keep |-> FALSE, row |-> <<>>]
  ELSE IF \E j \in 1..Len(row) : row[j] = None
       THEN [exc |-> "AttributeError", keep |-> FALSE, row |-> <<>>]
  ELSE [exc |-> "none", keep |-> TRUE,
        row |-> [j \in 1..Len(row) |-> StripStar(row[j])]]

\* validate's loop from row i on, `acc` being the list `validated` so far.
RECURSIVE ValidateFrom(_, _, _), ValidateNext(_, _, _, _)
ValidateFrom(tbl, i, acc) ==
  IF i > Len(tbl) THEN [exc |-> "none", rows |-> acc]
  ELSE ValidateNext(tbl, i, acc, ValidateRow(tbl[i]))

ValidateNext(tbl, i, acc, r) ==
  IF r.exc # "none" THEN [exc |-> r.exc, rows |-> <<>>]
  ELSE ValidateFrom(tbl, i + 1, IF r.keep THEN Append(acc, r.row) ELSE acc)

validate(tbl) == ValidateFrom(tbl, 1, <<>>)

\* --------------------------------------------------------------- transform

Extended(n, rest) ==
  IF n.exc # "none" THEN [exc |-> n.exc, out |-> <<>>]
  ELSE IF rest.exc # "none" THEN [exc |-> rest.exc, out |-> <<>>]
  ELSE [exc |-> "none", out |-> <<IntVal(n.int)>> \o rest.out]

\* [int(x) for x in cells]: the first cell that is no integer raises.
RECURSIVE ParseInts(_)
ParseInts(cells) ==
  IF Len(cells) = 0 THEN [exc |-> "none", out |-> <<>>]
  ELSE Extended(ParseInt(cells[1]), ParseInts(Tail(cells)))

\* The record of a row whose date parsed as t and whose numbers as ints,
\* after the cells `head`.
Record(t, ints, head) ==
  IF t.exc # "none" THEN [exc |-> t.exc, out |-> <<>>]
  ELSE IF ints.exc # "none" THEN [exc |-> ints.exc, out |-> <<>>]
  ELSE [exc |-> "none", out |-> head \o <<StrVal(IsoFormat(t))>> \o ints.out]

\* The body of transform's loop: [iso_date] extended by the int of each of
\* row[1:].
TransformRow(row) ==
  IF Len(row) = 0 THEN [exc |-> "IndexError", out |-> <<>>]
  ELSE Record(ParseDate(row[1]), ParseInts(Tail(row)), <<>>)

\* week_day: str(<datetime>.weekday()), a str of one digit.
WeekDayCell(t) == IF t.exc # "none" THEN <<>> ELSE <<StrVal(Pad(Weekday(t), 1))>>

\* The body of heat_transform's loop: [week_day, iso_date] extended by the
\* int of each of row[1:].
HeatTransformRow(row) ==
  IF Len(row) = 0 THEN [exc |-> "IndexError", out |-> <<>>]
  ELSE Record(ParseDate(row[1]), ParseInts(Tail(row)), WeekDayCell(ParseDate(row[1])))

\* The loop of transform (heat = FALSE) or heat_transform (heat = TRUE) from
\* row i on, `acc` being the list `result` so far.
RECURSIVE TransformFrom(_, _, _, _), TransformNext(_, _, _, _, _)
TransformFrom(rows, i, acc, heat) ==
  IF i > Len(rows) THEN [exc |-> "none", rows |-> acc]
  ELSE TransformNext(rows, i, acc, heat,
                     IF heat THEN HeatTransformRow(rows[i]) ELSE TransformRow(rows[i]))

TransformNext(rows, i, acc, heat, r) ==
  IF r.exc # "none" THEN [exc |-> r.exc, rows |-> <<>>]
  ELSE TransformFrom(rows, i + 1, Append(acc, r.out), heat)

\* return sorted(result), unless the loop raised.
Return(result) ==
  IF result.exc # "none" THEN result
  ELSE [exc |-> "none", rows |-> sorted(result.rows)]

transform(rows) == Return(TransformFrom(rows, 1, <<>>, FALSE))

heat_transform(rows) == Return(TransformFrom(rows, 1, <<>>, TRUE))

\* ----------------------------------------------------------------- extract

\* A td element of the parsed page: its text is a str, or None when the
\* element holds no text.
Element(text) == [tag |-> "td", text |-> text]

\* extract: for every tr of the page, the text of each of its children.
extract(d) == [i \in 1..Len(d) |-> [j \in 1..Len(d[i]) |-> d[i][j].text]]

\* ------------------------------------------------------------------ charts

BarChart == "-staff-student-covid-cases.png"
HeatMap == "-covid-cases-by-weekday.png"

\* The column labels of the heat map.
days == <<"Monday", "Tuesday", "Wednesday", "Thursday", "Friday", "Saturday", "Sunday">>
\* The row labels of the heat map.
casevals == <<"Students", "Staff">>

\* create_visualisations, the outcomes it can have: row[1] or row[2] of a
\* record with fewer than three elements is an IndexError; otherwise the bar
\* chart is saved, as the last statement.  Of no record at all the bars are
\* empty, and axes.legend() raises an IndexError or not with the version of
\* matplotlib.
create_visualisations(rows) ==
  IF \E i \in 1..Len(rows) : Len(rows[i]) < 3
  THEN {[exc |-> "IndexError", saved |-> {}]}
  ELSE IF Len(rows) = 0
  THEN {[exc |-> "IndexError", saved |-> {}], [exc |-> "none", saved |-> {BarChart}]}
  ELSE {[exc |-> "none", saved |-> {BarChart}]}

RECURSIVE SumWhere(_, _, _, _)
SumWhere(bins, weights, b, i) ==
  IF i > Len(bins) THEN 0
  ELSE (IF bins[i] = b THEN weights[i] ELSE 0) + SumWhere(bins, weights, b, i + 1)

SeqMax(xs) == CHOOSE m \in {xs[i] : i \in 1..Len(xs)} : \A i \in 1..Len(xs) : xs[i] <= m

\* np.bincount(x, weights): one bin for each of 0..max(x), each the sum of the
\* weights of the entries of x that equal it.
bincount(x, weights) == [b \in 1..(SeqMax(x) + 1) |-> SumWhere(x, weights, b - 1, 1)]

\* Column c of the records as integers (astype(int)).
Column(rows, c) ==
  [i \in 1..Len(rows) |->
     IF rows[i][c].type = "int" THEN rows[i][c].int ELSE ParseInt(rows[i][c].str).int]

\* plotarray: <<studentsums, staffsums>>.
PlotArray(wd, studentvals, staffvals) ==
  <<bincount(wd, studentvals), bincount(wd, staffvals)>>

\* A mutant of Annotated: the figure is saved before the cells are annotated.
SavedThenAnnotated(grid) ==
  IF Len(grid[1]) < Len(days)
  THEN [exc |-> "IndexError", plotarray |-> grid, saved |-> {HeatMap}]
  ELSE [exc |-> "none", plotarray |-> grid, saved |-> {HeatMap}]

\* The end of create_heatmap: annotating cell [i, j] of the grid for every i
\* in range(len(casevals)) and every j in range(len(days)) is an IndexError
\* when the grid has fewer columns; only after it is the figure saved.
Annotated(grid) ==
  IF Len(grid[1]) < Len(days)
  THEN [exc |-> "IndexError", plotarray |-> grid, saved |-> {}]
  ELSE [exc |-> "none", plotarray |-> grid, saved |-> {HeatMap}]

\* create_heatmap, the outcomes it can have.  np.array of no record has one
\* dimension, so heatarray[:,0] is an IndexError; np.array of records of
\* different lengths is a ValueError, or with an older numpy an array of one
\* dimension and an IndexError at heatarray[:,0]; heatarray[:,3] of records
\* of fewer than four elements is an IndexError.
create_heatmap(rows) ==
  IF Len(rows) = 0 THEN {[exc |-> "IndexError", plotarray |-> <<>>, saved |-> {}]}
  ELSE IF \E i \in 1..Len(rows) : Len(rows[i]) # Len(rows[1])
       THEN {[exc |-> e, plotarray |-> <<>>, saved |-> {}] : e \in {"ValueError", "IndexError"}}
  ELSE IF Len(rows[1]) < 4
       THEN {[exc |-> "IndexError", plotarray |-> <<>>, saved |-> {}]}
  ELSE {Annotated(PlotArray(Column(rows, 1), Column(rows, 4), Column(rows, 3)))}

\* A mutant of StoreFiles: the second branch an `if`, not an `elif`.
StoreFilesBoth(a) ==
  (IF a.csv_file # None THEN {"csv"} ELSE {}) \cup
  (IF a.json_file # None THEN {"json"} ELSE {})

\* The files the end of main writes: the CSV file if --csv is given, else the
\* JSON file if --json is given.
StoreFiles(a) ==
  IF a.csv_file # None THEN {"csv"}
  ELSE IF a.json_file # None THEN {"json"}
  ELSE {}

\* A response whose status gov_data.py treats as a failed request.
IsFailure(status_code) == status_code >= 400

\* ------------------------------------------------------------------ inputs

SeqsUpTo(S, n) == UNION {[1..k -> S] : k \in 0..n}

OutPath == <<"o", "u", "t">>
Args == [csv_file : {None, OutPath}, json_file : {None, OutPath}]
NoArgs == [csv_file |-> None, json_file |-> None]

Statuses == {200, 404}

Five == <<"5">>
Seven == <<"7">>
Twelve == <<"1", "2">>
Zero == <<"0">>

HeaderRow == <<Day, NewStaff \o Cases, NewStudent \o Cases>>
BadHeaderRow == <<Day, Foo, Bar>>

\* The rows of the pages of a run of main: the header, a header with the
\* wrong labels, a Sunday and a Monday with footnote asterisks, a row with one
\* number, a row with an extra number, a totals row, a row with an empty cell.
PageRows ==
  { HeaderRow, BadHeaderRow,
    <<Oct11 \o Star, Five \o Star, Twelve>>,
    <<Oct12, Seven, Zero>>,
    <<Oct12, Seven>>,
    <<Oct11, Five, Twelve, Zero>>,
    <<Total, Twelve, Twelve>>,
    <<Oct12, None, Zero>> }

Pages ==
  { [i \in 1..Len(t) |-> [j \in 1..Len(t[i]) |-> Element(t[i][j])]] :
      t \in SeqsUpTo(PageRows, MaxPageRows) }

\* The rows of a table handed to validate: header rows with and without
\* their labels, and every row of a first cell and up to MaxCells more cells.
HeaderSamples ==
  { HeaderRow, BadHeaderRow, <<Day>>,
    <<Day, None, NewStudent>>,
    <<Day, NewStaff, Foo>>,
    <<Day, NewStaff \o Cases, NewStudent \o Cases, None>>,
    <<Total \o Sp \o Day \o Star, NewStaff, NewStudent>>,
    <<Total, Day>> }
FirstCells == {None, Oct11 \o Star, Total}
StarCells == {None, Five, Five \o Star \o Star}
ValidateRows ==
  HeaderSamples \cup {<<>>} \cup
  {<<f>> \o rest : f \in FirstCells, rest \in SeqsUpTo(StarCells, MaxCells)}
ValidateTables == SeqsUpTo(ValidateRows, MaxTableRows)

\* The rows of a validated table handed to the transformers: a date, a staff
\* count and a student count, and rows with a cell that is no date or no
\* number, with a cell missing and with a cell more.
DateCells == {Oct09, Oct11, Oct12, Iso11}
ValuePairs == {<<Five, Twelve>>, <<Zero, Seven>>}
TransformRows ==
  {<<d>> \o p : d \in DateCells, p \in ValuePairs} \cup
  { <<Total, Five, Twelve>>,
    <<Oct12, Five \o Star, Twelve>>,
    <<Oct12, Five>>,
    <<Oct09, Five, Twelve, Seven>> }
TransformInputs == SeqsUpTo(TransformRows, MaxValidatedRows)

\* ----------------------------------------------------------------- actions

Start(p, a, tbl, rows) ==
  /\ pc = p
  /\ args = a
  /\ status = 0
  /\ dom = <<>>
  /\ table = tbl
  /\ validated = rows
  /\ data = <<>>
  /\ heatdata = <<>>
  /\ plotarray = <<>>
  /\ files = {}
  /\ exc = "none"
  /\ where = "none"

\* main after parse_args.
Init == \E a \in Args : Start("fetch", a, <<>>, <<>>)

\* validate, called on a table.
InitValidate == \E tbl \in ValidateTables : Start("validate", NoArgs, tbl, <<>>)

\* The steps of main after validate, on a validated table.
InitTransform == \E rows \in TransformInputs : Start("transform", NoArgs, <<>>, rows)

Raised(e, f) == pc' = "error" /\ exc' = e /\ where' = f

\* fetch: requests.get returns a response, whatever its status, and its text
\* is parsed.
Fetch ==
  /\ pc = "fetch"
  /\ \E s \in Statuses, page \in Pages : status' = s /\ dom' = page
  /\ pc' = "extract"
  /\ UNCHANGED <<args, table, validated, data, heatdata, plotarray, files, exc, where>>

\* fetch: requests.get raises (no connection).
FetchRaises ==
  /\ pc = "fetch"
  /\ Raised("ConnectionError", "fetch")
  /\ UNCHANGED <<args, status, dom, table, validated, data, heatdata, plotarray, files>>

Extract ==
  /\ pc = "extract"
  /\ table' = extract(dom)
  /\ pc' = "validate"
  /\ UNCHANGED <<args, status, dom, validated, data, heatdata, plotarray, files, exc, where>>

\* A call returns or raises r.exc: main goes on to `next`, or ends.
Returns(r, f, next) ==
  IF r.exc # "none" THEN Raised(r.exc, f) ELSE pc' = next /\ UNCHANGED <<exc, where>>

Validate ==
  /\ pc = "validate"
  /\ Returns(validate(table), "validate", "transform")
  /\ validated' = validate(table).rows
  /\ UNCHANGED <<args, status, dom, table, data, heatdata, plotarray, files>>

Transform ==
  /\ pc = "transform"
  /\ Returns(transform(validated), "transform", "heat_transform")
  /\ data' = transform(validated).rows
  /\ UNCHANGED <<args, status, dom, table, validated, heatdata, plotarray, files>>

HeatTransform ==
  /\ pc = "heat_transform"
  /\ Returns(heat_transform(validated), "heat_transform", "create_visualisations")
  /\ heatdata' = heat_transform(validated).rows
  /\ UNCHANGED <<args, status, dom, table, validated, data, plotarray, files>>

CreateVisualisations ==
  /\ pc = "create_visualisations"
  /\ \E r \in create_visualisations(data) :
       /\ Returns(r, "create_visualisations", "create_heatmap")
       /\ files' = files \cup r.saved
  /\ UNCHANGED <<args, status, dom, table, validated, data, heatdata, plotarray>>

CreateHeatmap ==
  /\ pc = "create_heatmap"
  /\ \E r \in create_heatmap(heatdata) :
       /\ Returns(r, "create_heatmap", "store")
       /\ files' = files \cup r.saved
       /\ plotarray' = r.plotarray
  /\ UNCHANGED <<args, status, dom, table, validated, data, heatdata>>

Store ==
  /\ pc = "store"
  /\ files' = files \cup StoreFiles(args)
  /\ pc' = "done"
  /\ UNCHANGED <<args, status, dom, table, validated, data, heatdata, plotarray, exc, where>>

Next ==
  \/ Fetch
  \/ FetchRaises
  \/ Extract
  \/ Validate
  \/ Transform
  \/ HeatTransform
  \/ CreateVisualisations
  \/ CreateHeatmap
  \/ Store

NextValidate == Validate

NextTransform ==
  \/ Transform
  \/ HeatTransform
  \/ CreateVisualisations
  \/ CreateHeatmap

Spec == Init /\ [][Next]_vars

SpecValidate == InitValidate /\ [][NextValidate]_vars

SpecTransform == InitTransform /\ [][NextTransform]_vars

\* ------------------------------------------------------------------ claims

ValidateReturned == pc = "transform"
ValidateRaised == pc = "error" /\ where = "validate"

\* The first cell of the row is a str that contains "Day".
HasDay(row) == Len(row) >= 1 /\ row[1] # None /\ Contains(row[1], Day)

\* The second cell of the row contains "New staff" and the third "New student".
Labelled(row) ==
  /\ Len(row) >= 3
  /\ row[2] # None /\ Contains(row[2], NewStaff)
  /\ row[3] # None /\ Contains(row[3], NewStudent)

HeadersLabelled(tbl) == \A i \in 1..Len(tbl) : HasDay(tbl[i]) => Labelled(tbl[i])

NotHeader(row) == ~HasDay(row)

\* The rows whose first cell does not contain "Day", in their order.
NonHeaderRows(tbl) == SelectSeq(tbl, NotHeader)

\* Every row has a first cell that is a str, and a row that is no header row
\* has only str cells.
WellFormed(tbl) ==
  \A i \in 1..Len(tbl) :
    /\ Len(tbl[i]) >= 1
    /\ tbl[i][1] # None
    /\ ~HasDay(tbl[i]) => \A j \in 1..Len(tbl[i]) : tbl[i][j] # None

\* The row `out` is the row `in`, but for one trailing asterisk of a cell.
SameButStar(out, in) ==
  /\ Len(out) = Len(in)
  /\ \A j \in 1..Len(in) : in[j] = out[j] \/ in[j] = out[j] \o Star

\* `out` holds the rows of tbl that are no header rows: in their order, none
\* added, none lost.
RowsKept(tbl, out) ==
  /\ Len(out) = Len(NonHeaderRows(tbl))
  /\ \A k \in 1..Len(out) : SameButStar(out[k], NonHeaderRows(tbl)[k])

\* C1 as stated: for every list of rows, if every row with "Day" in its first
\* cell has its two labels, validate returns the rows without "Day" in their
\* first cell, in order; if some row with "Day" lacks a label, validate raises.
C1_AnyRowList ==
  (ValidateReturned \/ ValidateRaised) =>
    IF HeadersLabelled(table)
    THEN ValidateReturned /\ RowsKept(table, validated)
    ELSE ValidateRaised

\* C1 amended: the first half holds for the lists of rows in which every row
\* has a first cell that is a str and every row that is no header row has only
\* str cells; the second half holds for every list of rows.
C1_WellFormedRowList ==
  (ValidateReturned \/ ValidateRaised) =>
    /\ (WellFormed(table) /\ HeadersLabelled(table)) =>
         (ValidateReturned /\ RowsKept(table, validated))
    /\ ~HeadersLabelled(table) => ValidateRaised

\* validate returned a row and dropped a header row.
C1_Witness ==
  /\ ValidateReturned
  /\ \E i \in 1..Len(table) : HasDay(table[i])
  /\ Len(validated) >= 1

\* C2: a row validate retains has as many cells as the row it comes from, and
\* each cell is the cell it comes from without its last character if that is
\* an asterisk, and the very cell otherwise.
C2_OneTrailingAsteriskStripped ==
  ValidateReturned =>
    \A k \in 1..Len(validated) :
      /\ k <= Len(NonHeaderRows(table))
      /\ Len(validated[k]) = Len(NonHeaderRows(table)[k])
      /\ \A j \in 1..Len(validated[k]) :
           IF EndsWithStar(NonHeaderRows(table)[k][j])
           THEN NonHeaderRows(table)[k][j] = validated[k][j] \o Star
           ELSE NonHeaderRows(table)[k][j] = validated[k][j]

\* validate turned a cell "5**" into "5*".
C2_Witness ==
  /\ ValidateReturned
  /\ \E k \in 1..Len(validated) : \E j \in 1..Len(validated[k]) :
       /\ NonHeaderRows(table)[k][j] = Five \o Star \o Star
       /\ validated[k][j] = Five \o Star

\* C9 as stated: every row validate returns has a date in its first cell and
\* an integer in each other cell.
C9_ValidatedRowsParse ==
  ValidateReturned =>
    \A k \in 1..Len(validated) :
      /\ ParseDate(validated[k][1]).exc = "none"
      /\ \A j \in 2..Len(validated[k]) : ParseInt(validated[k][j]).exc = "none"

\* C10: validate returns only if every row has a cell, every first cell is a
\* str and every cell of a row that is no header row is a str.
C10_ReturnsOnlyOnStrCells == ValidateReturned => WellFormed(table)

\* validate raised on a row, no header row, that holds a cell with no text.
C10_Witness ==
  /\ ValidateRaised
  /\ exc = "AttributeError"
  /\ \E i \in 1..Len(table) :
       ~HasDay(table[i]) /\ \E j \in 2..Len(table[i]) : table[i][j] = None

TransformReturned == pc \in {"heat_transform", "create_visualisations", "create_heatmap", "store", "done"}
                     \/ (pc = "error" /\ where # "transform")

HeatTransformReturned == pc \in {"create_visualisations", "create_heatmap", "store", "done"}
                         \/ (pc = "error" /\ where \notin {"transform", "heat_transform"})

HeatmapActed == pc \in {"store", "done"} \/ (pc = "error" /\ where = "create_heatmap")

\* s is YYYY-MM-DD.
IsIso(s) ==
  /\ Len(s) = 10
  /\ s[5] = "-" /\ s[8] = "-"
  /\ \A i \in {1, 2, 3, 4, 6, 7, 9, 10} : IsDigit(s[i])

\* Date a is before date b.
Before(a, b) ==
  \/ a.y < b.y
  \/ a.y = b.y /\ a.m < b.m
  \/ a.y = b.y /\ a.m = b.m /\ a.d < b.d

DistinctDates(rows) ==
  \A i, j \in 1..Len(rows) : i # j => ParseDate(rows[i][1]) # ParseDate(rows[j][1])

\* rec is the record of row: its date as an ISO date, then its other cells as
\* integers, in their order.
IsRecordOf(rec, row) ==
  /\ Len(rec) = Len(row)
  /\ rec[1].type = "str" /\ IsIso(rec[1].str)
  /\ ParseDate(rec[1].str) = ParseDate(row[1])
  /\ \A j \in 2..Len(row) : rec[j].type = "int" /\ rec[j].int = ParseInt(row[j]).int

\* C3: of validated rows with pairwise distinct dates, transform returns one
\* record for each row, in strictly ascending order of their dates.
C3_OneRecordPerRowAscending ==
  (TransformReturned /\ DistinctDates(validated)) =>
    /\ Len(data) = Len(validated)
    /\ \A i \in 1..Len(validated) : \E k \in 1..Len(data) : IsRecordOf(data[k], validated[i])
    /\ \A k \in 1..(Len(data) - 1) :
         Before(ParseDate(data[k][1].str), ParseDate(data[k + 1][1].str))

\* transform returned the records of rows that came latest date first.
C3_Witness ==
  /\ TransformReturned
  /\ DistinctDates(validated)
  /\ Len(validated) >= 2
  /\ \A i \in 1..(Len(validated) - 1) :
       Before(ParseDate(validated[i + 1][1]), ParseDate(validated[i][1]))

\* C4 as stated: the first element of a record of heat_transform is an
\* integer in 0..6, the weekday (Monday 0) of the date of the row, and the ISO
\* date follows it.
C4_WeekdayIsInteger ==
  HeatTransformReturned =>
    \A k \in 1..Len(heatdata) :
      /\ heatdata[k][2].type = "str" /\ IsIso(heatdata[k][2].str)
      /\ heatdata[k][1].type = "int"
      /\ heatdata[k][1].int \in 0..6
      /\ heatdata[k][1].int = Weekday(ParseDate(heatdata[k][2].str))

\* C5 as stated: when the GET returns a status that is no success, fetch
\* raises: no DOM is returned and no later step of main runs.
C5_FailureStatusAborts ==
  IsFailure(status) => (pc = "error" /\ where = "fetch" /\ dom = <<>>)

C7_ErrorLeavesNoFile == pc = "error" => files = {}

\* C7 amended: a run in which fetch, validate, transform, heat_transform or
\* create_visualisations raises has written no file; a run in which
\* create_heatmap raises has written the bar chart and no other file.
C7_ErrorLeavesAtMostBarChart ==
  pc = "error" =>
    /\ where \in {"fetch", "validate", "transform", "heat_transform",
                  "create_visualisations", "create_heatmap"}
    /\ where # "create_heatmap" => files = {}
    /\ where = "create_heatmap" => files = {BarChart}

\* create_heatmap raised after the bar chart was saved.
C7_Witness == pc = "error" /\ where = "create_heatmap" /\ files = {BarChart}

\* The sum of element c of the records whose weekday is d.
RECURSIVE SumOfWeekday(_, _, _)
SumOfWeekday(recs, d, c) ==
  IF Len(recs) = 0 THEN 0
  ELSE (IF ParseInt(recs[1][1].str).int = d THEN recs[1][c].int ELSE 0)
       + SumOfWeekday(Tail(recs), d, c)

\* C8 as stated: of heat records (at least one, each a weekday, a date, a
\* staff count and a student count) create_heatmap builds a grid of 2 rows and
\* 7 columns, the student sums of each weekday over the staff sums.
C8_GridIsTwoBySeven ==
  (/\ HeatmapActed
   /\ Len(heatdata) >= 1
   /\ \A k \in 1..Len(heatdata) : Len(heatdata[k]) = 4) =>
    /\ Len(plotarray) = 2
    /\ \A r \in 1..2 : Len(plotarray[r]) = 7
    /\ \A d \in 0..6 :
         /\ plotarray[1][d + 1] = SumOfWeekday(heatdata, d, 4)
         /\ plotarray[2][d + 1] = SumOfWeekday(heatdata, d, 3)

=============================================================================
